---- MODULE Spec2Model ----
(***************************************************************************)
(* Registry synchronisation and concurrent artifact fetch.                 *)
(*                                                                         *)
(*   tools/sync_registry_models.py   ModelDownloader    (the sync tool)    *)
(*   tools/add_new_model.py          HFModelDownloader  (registration)     *)
(*                                                                         *)
(* One process at a time works on the registry document (the single-writer *)
(* assumption of the tools).  A process is constructed (the registry is    *)
(* loaded from the document), runs download_model calls and is replaced by *)
(* the next process.  Inside a sync download_model the file fetches run on *)
(* a ThreadPoolExecutor; every system call of _download_file is one step.  *)
(***************************************************************************)
EXTENDS Naturals, Integers, Sequences, FiniteSets, TLC

(***************************************************************************)
(* Bounds of the model.                                                    *)
(***************************************************************************)
\* largest max_workers a process is constructed with
MaxWorkers == 2
\* chunks of a response body (iter_content yields 1..MaxChunks chunks)
MaxChunks == 1
\* the calendar: datetime.now() yields a day in 1..MaxDay
MaxDay == 2
\* download_model calls followed in one behaviour when max_workers is 1
\* (with a larger pool one call is followed)
MaxOps == 2
\* records the registry may hold (registration stops adding beyond it)
MaxModels == 2

(***************************************************************************)
(* Names.  A repository name is a sequence of text pieces, so that         *)
(* str.replace('.', '-') is computed piece by piece.                       *)
(***************************************************************************)
WhisperTinyEn == <<"whisper-tiny", ".", "en">>
OpenWakeWord == <<"openWakeWord">>
SileroVad == <<"silero-vad">>
MirrorRepo == <<"huggingface.co", "-", "mirror">>

Owners == {"Xenova", "openai"}
\* the owner registration commands name: the other one's repository is registered already
RegOwners == {"openai"}
RegNames == {WhisperTinyEn}

FileNames == {"config.json", "tokenizer.json", "normalizer.json", "hey_jarvis.onnx",
              "onnx/melspectrogram.onnx"}

Unset == "unset"

\* HFModelDownloader.REQUIRED_FILES / OPTIONAL_FILES: the two lists, cut to
\* the files this model follows (config.json keeps its special handling).
REQUIRED_FILES == <<"config.json", "tokenizer.json">>
OPTIONAL_FILES == <<"normalizer.json">>

(***************************************************************************)
(* Sequence helpers.                                                       *)
(***************************************************************************)
Range(s) == {s[i] : i \in 1..Len(s)}

\* [x for x in s if x in keep]
RECURSIVE FilterIn(_, _)
FilterIn(s, keep) ==
    IF s = <<>> THEN <<>>
    ELSE IF Head(s) \in keep THEN <<Head(s)>> \o FilterIn(Tail(s), keep)
         ELSE FilterIn(Tail(s), keep)

\* model_name.replace('.', '-')
StrReplaceDot(name) == [i \in 1..Len(name) |-> IF name[i] = "." THEN "-" ELSE name[i]]

(***************************************************************************)
(* Model records and the registry document.                                *)
(***************************************************************************)
ModelTypes == {"asr", "wakeword", "vad", "tts", "nlp"}
Platforms == {"huggingface", "github", "local"}

Source(platform, author, repository, branch, release) ==
    [platform |-> platform, author |-> author, repository |-> repository,
     branch |-> branch, release |-> release]

Status(downloaded, verified, date) ==
    [downloaded |-> downloaded, verified |-> verified, download_date |-> date]

Record(id, type, source, local_path, required, optional, status) ==
    [id |-> id, type |-> type, source |-> source, local_path |-> local_path,
     files |-> [required |-> required, optional |-> optional], status |-> status]

\* m.get('status', {}).get('downloaded', False)
IsDownloaded(m) == m.status.downloaded

CountDownloaded(models) == Cardinality({i \in 1..Len(models) : IsDownloaded(models[i])})

CountType(models, t) == Cardinality({i \in 1..Len(models) : models[i].type = t})

CountPlatform(models, p) == Cardinality({i \in 1..Len(models) : models[i].source.platform = p})

PendingOfMutant(models, downloaded) == Len(models)

\* the statistics _update_statistics computes from models
PendingOf(models, downloaded) == Len(models) - downloaded

StatisticsOf(models) ==
    [total_models |-> Len(models),
     by_type |-> [t \in ModelTypes |-> CountType(models, t)],
     by_source |-> [p \in Platforms |-> CountPlatform(models, p)],
     downloaded_models |-> CountDownloaded(models),
     pending_models |-> PendingOf(models, CountDownloaded(models))]

\* HFModelDownloader._update_statistics
UpdateStatistics(reg) == [reg EXCEPT !.statistics = StatisticsOf(reg.models)]

Document(models, statistics, last_updated) ==
    [models |-> models, statistics |-> statistics, last_updated |-> last_updated]

\* HFModelDownloader._load_registry, no document at the path
DefaultRegistry(day) == Document(<<>>, StatisticsOf(<<>>), day)

(***************************************************************************)
(* Local file system: <models-dir>/<local_path>/<file>.                    *)
(***************************************************************************)
HFDir(owner, name) == <<"huggingface", owner, name>>
GitHubDir == <<"github", "dscripka", OpenWakeWord>>
LocalDir == <<"local", "snakers4", SileroVad>>
MirrorDir == <<"github", "dscripka", MirrorRepo>>

AllDirs == {HFDir(o, n) : o \in Owners, n \in RegNames} \cup {GitHubDir, LocalDir, MirrorDir}
AllPaths == AllDirs \X FileNames

\* local_path / file_path
Dest(local_path, file) == <<local_path, file>>

\* Path.exists(): a file that was opened for writing exists, whatever it holds
Exists(files, path) == files[path] # "absent"

(***************************************************************************)
(* ModelDownloader._get_download_url                                       *)
(***************************************************************************)
PlatformSupported(model) == model.source.platform \in {"huggingface", "github"}

\* model['source'].get('branch', 'main')
BranchOf(model) == IF model.source.branch = Unset THEN "main" ELSE model.source.branch

\* model['source'].get('release', 'latest')
ReleaseOf(model) == IF model.source.release = Unset THEN "latest" ELSE model.source.release

GetDownloadUrl(model, file_path) ==
    LET author == model.source.author
        repo == model.source.repository
    IN  IF model.source.platform = "huggingface"
        THEN <<"https://huggingface.co", author>> \o repo \o <<"resolve", "main", file_path>>
        ELSE IF repo = OpenWakeWord
             THEN IF ReleaseOf(model) # "latest"
                  THEN <<"https://github.com", author>> \o repo
                           \o <<"releases", "download", ReleaseOf(model), file_path>>
                  ELSE <<"https://github.com", author>> \o repo
                           \o <<"raw", BranchOf(model), "models", file_path>>
             ELSE <<"https://raw.githubusercontent.com", author>> \o repo
                      \o <<BranchOf(model), file_path>>

\* HFModelDownloader.build_file_url
BuildFileUrl(owner, model_name, file_path, branch) ==
    <<"https://huggingface.co", owner>> \o model_name \o <<"resolve", branch, file_path>>

(***************************************************************************)
(* State.                                                                  *)
(***************************************************************************)
VARIABLES
    registry,           \* self.registry of the running process
    disk,               \* the registry document at registry_path
    diskState,          \* "absent", "truncated" (opened 'w', not yet dumped), "full"
    fs,                 \* the files under the models directory
    today,              \* the day datetime.now() yields
    tool,               \* "sync" (ModelDownloader) or "add" (HFModelDownloader)
    max_workers,        \* self.max_workers
    ops,                \* commands run so far
    fleet,              \* the running or last download_all: its list, position, count
    pc,                 \* position of the main thread
    call,               \* the model the running download_model works on, and whether
                        \* force made it pass the "already downloaded" return (force
                        \* and include_optional are read in its first steps only)
    files_to_download,  \* <<file, is_required>> pairs
    futures,            \* the submitted fetches, in submission order
    processed,          \* futures as_completed has handed to the loop body
    success_count,
    failed_files,
    fetches,            \* requests.get calls issued by the running call
    ret,                \* what the caller receives
    why,                \* the exit path taken
    pre                 \* registry and document when the call started

registryVars == <<registry, disk, diskState>>
procVars == <<tool, max_workers, ops, fleet>>
runVars == <<call, files_to_download, futures, processed, success_count, failed_files>>
vars == <<registry, disk, diskState, fs, today, tool, max_workers, ops, fleet, pc, call,
          files_to_download, futures, processed, success_count, failed_files,
          fetches, ret, why, pre>>

(***************************************************************************)
(* Registries a process can find at start.                                 *)
(***************************************************************************)
WhisperModel(dl) ==
    Record(StrReplaceDot(WhisperTinyEn), "asr",
           Source("huggingface", "Xenova", WhisperTinyEn, Unset, Unset),
           HFDir("Xenova", WhisperTinyEn),
           <<"config.json", "tokenizer.json">>, <<"normalizer.json">>,
           Status(dl, dl, 0))

JarvisModel(dl) ==
    Record(<<"hey_jarvis">>, "wakeword",
           Source("github", "dscripka", OpenWakeWord, Unset, "v0.5.1"),
           GitHubDir, <<"hey_jarvis.onnx">>, <<"onnx/melspectrogram.onnx">>, Status(dl, dl, 0))

VadModel ==
    Record(<<"silero-vad">>, "vad",
           Source("local", "snakers4", SileroVad, Unset, Unset),
           LocalDir, <<>>, <<"config.json">>, Status(FALSE, FALSE, 0))

\* a GitHub repository whose name holds the text "huggingface.co"
MirrorModel ==
    Record(<<"jarvis-mirror">>, "wakeword",
           Source("github", "dscripka", MirrorRepo, Unset, Unset),
           MirrorDir, <<"hey_jarvis.onnx">>, <<>>, Status(FALSE, FALSE, 0))

\* a manifest that lists one file as required and as optional
TwiceModel ==
    Record(<<"whisper-twice">>, "asr",
           Source("huggingface", "openai", WhisperTinyEn, "dev", Unset),
           HFDir("openai", WhisperTinyEn),
           <<"config.json">>, <<"config.json">>, Status(FALSE, FALSE, 0))

AbsentFs == [p \in AllPaths |-> "absent"]

\* every required file of the models is there
FullFs(models) ==
    LET paths == UNION {{Dest(models[i].local_path, f) : f \in Range(models[i].files.required)} :
                            i \in 1..Len(models)}
    IN  [p \in AllPaths |-> IF p \in paths THEN "complete" ELSE "absent"]

\* tokenizer.json has been removed
RemovedFs(models) ==
    [p \in AllPaths |-> IF p[2] = "tokenizer.json" THEN "absent" ELSE FullFs(models)[p]]

\* the statistics of a document whose statistics agree with its models
ConsistentStatistics(models) ==
    LET n == Cardinality({i \in 1..Len(models) : models[i].status.downloaded})
    IN  [total_models |-> Len(models),
         by_type |-> [t \in ModelTypes |-> CountType(models, t)],
         by_source |-> [p \in Platforms |-> CountPlatform(models, p)],
         downloaded_models |-> n,
         pending_models |-> Cardinality({i \in 1..Len(models) : ~models[i].status.downloaded})]

\* <<models, files>> a first process can find
InitialStates ==
    {<<<<WhisperModel(FALSE)>>, AbsentFs>>,
     <<<<WhisperModel(TRUE)>>, FullFs(<<WhisperModel(TRUE)>>)>>,
     <<<<WhisperModel(TRUE)>>, RemovedFs(<<WhisperModel(TRUE)>>)>>,
     <<<<VadModel, JarvisModel(TRUE)>>, FullFs(<<JarvisModel(TRUE)>>)>>,
     <<<<TwiceModel>>, AbsentFs>>,
     <<<<MirrorModel>>, AbsentFs>>}

NoCall == [model_id |-> <<>>, index |-> 0, forced |-> FALSE, fetched |-> <<>>]

\* no download_all has run in this process since its last command
FleetOff == [st |-> "off", models |-> <<>>, k |-> 0, slept |-> 0, success_count |-> 0,
             force |-> FALSE, include_optional |-> FALSE]

Snapshot(reg, doc) == [registry |-> reg, disk |-> doc]

Init ==
    /\ today = 1
    /\ \/ \E start \in InitialStates :
            /\ registry = Document(start[1], ConsistentStatistics(start[1]), 0)
            /\ fs = start[2]
            /\ diskState = "full"
            /\ tool \in {"sync", "add"}
       \/ \* no document yet: only the registration tool starts
          /\ registry = DefaultRegistry(today)
          /\ fs = AbsentFs
          /\ diskState = "absent"
          /\ tool = "add"
    /\ disk = registry
    /\ max_workers \in 1..MaxWorkers
    /\ ops = 0
    /\ fleet = FleetOff
    /\ pc = "idle"
    /\ call = NoCall
    /\ files_to_download = <<>>
    /\ futures = <<>>
    /\ processed = {}
    /\ success_count = 0
    /\ failed_files = <<>>
    /\ fetches = 0
    /\ ret = "none"
    /\ why = "none"
    /\ pre = Snapshot(registry, disk)

(***************************************************************************)
(* ModelDownloader.download_model: the main thread.                        *)
(***************************************************************************)
\* calls followed by the model for a pool of n workers
CallBudget(n) == IF n = 1 THEN MaxOps ELSE 1

\* next((m for m in self.registry['models'] if m['id'] == model_id), None)
FindModel(models, model_id) ==
    LET hits == {i \in 1..Len(models) : models[i].id = model_id}
    IN  IF hits = {} THEN 0 ELSE CHOOSE i \in hits : \A j \in hits : i <= j

AlreadyDownloadedMutant(model, force) == force /\ IsDownloaded(model)

\* not force and model.get('status', {}).get('downloaded', False)
AlreadyDownloaded(model, force) == ~force /\ IsDownloaded(model)

\* required files, then the optional ones when asked for
FilesToDownload(model, include_optional) ==
    [k \in 1..Len(model.files.required) |-> <<model.files.required[k], TRUE>>]
        \o (IF include_optional
            THEN [k \in 1..Len(model.files.optional) |-> <<model.files.optional[k], FALSE>>]
            ELSE <<>>)

Future(file, required, url, dest) ==
    [file |-> file, required |-> required, url |-> url, dest |-> dest,
     st |-> "queued", kind |-> "none", msg |-> "none", chunks |-> 0, attached |-> FALSE,
     auth |-> FALSE]

Done(f) == f.st \in {"done_ok", "done_fail", "raised"}
Running(f) == ~Done(f) /\ f.st # "queued"

AllDone(futs) == \A t \in 1..Len(futs) : Done(futs[t])

CurrentModel == registry.models[call.index]

\* return False after "Model not found"
NotFoundResult == "False"

\* return False after "Failed to download required files"
FailedResult == "False"

\* the three returns of download_model that come before any work
Leave(value, path) ==
    /\ pc' = "returned"
    /\ ret' = value
    /\ why' = path

NoFilesMutant(files) == FALSE

\* if not files_to_download
NoFiles(files) == files = <<>>

DownloadModel(model_id, force, include_optional) ==
    /\ pre' = Snapshot(registry, disk)
    /\ fetches' = 0
    /\ LET i == FindModel(registry.models, model_id)
       IN  /\ call' = [model_id |-> model_id, index |-> i,
                       forced |-> i # 0 /\ force /\ IsDownloaded(registry.models[i]),
                       fetched |-> <<>>]
           /\ IF i = 0
              THEN Leave(NotFoundResult, "not_found") /\ files_to_download' = <<>>
              ELSE IF AlreadyDownloaded(registry.models[i], force)
              THEN Leave("True", "short_circuit") /\ files_to_download' = <<>>
              ELSE LET files == FilesToDownload(registry.models[i], include_optional)
                   IN  /\ files_to_download' = files
                       /\ IF NoFiles(files)
                          THEN Leave("False", "no_files")
                          ELSE pc' = "submit" /\ UNCHANGED <<ret, why>>
    /\ futures' = <<>>
    /\ processed' = {}
    /\ success_count' = 0
    /\ failed_files' = <<>>
    /\ UNCHANGED <<registryVars, fs, today, tool, max_workers>>

\* main: the download command for one model id
Call(model_id, force, include_optional) ==
    /\ pc = "idle"
    /\ tool = "sync"
    /\ ops < CallBudget(max_workers)
    /\ ops' = ops + 1
    /\ fleet' = FleetOff
    /\ DownloadModel(model_id, force, include_optional)

\* futures[i]: what executor.submit was given for files[i]
Submitted(model, files) ==
    [k \in 1..Len(files) |->
        Future(files[k][1], files[k][2], GetDownloadUrl(model, files[k][1]),
               Dest(model.local_path, files[k][1]))]

\* the submit loop: for each file resolve the URL and executor.submit
Submit ==
    /\ pc = "submit"
    /\ IF ~PlatformSupported(CurrentModel)
       THEN \* ValueError on the first file leaves through the with block
            /\ pc' = "unwind"
            /\ why' = "unsupported_platform"
            /\ UNCHANGED futures
       ELSE /\ futures' = Submitted(CurrentModel, files_to_download)
            /\ pc' = "collect"
            /\ UNCHANGED why
    /\ UNCHANGED <<registryVars, fs, today, procVars, call, files_to_download, processed,
                   success_count, failed_files, fetches, ret, pre>>

\* success, message = future.result(): the message is printed and dropped
Consumed(f) == [f EXCEPT !.kind = "none", !.msg = "none"]

FailedAfterMutant(failed, f) == Append(failed, f.file)

\* if is_required: failed_files.append(file_path)
FailedAfter(failed, f) == IF f.required THEN Append(failed, f.file) ELSE failed

\* as_completed hands over a finished future; the loop body
Collect(t) ==
    /\ pc = "collect"
    /\ t \in 1..Len(futures)
    /\ t \notin processed
    /\ Done(futures[t])
    /\ processed' = processed \cup {t}
    /\ futures' = [futures EXCEPT ![t] = Consumed(@)]
    /\ IF futures[t].st = "raised"
       THEN \* future.result() re-raises
            /\ pc' = "unwind"
            /\ why' = "fetch_raised"
            /\ UNCHANGED <<success_count, failed_files>>
       ELSE /\ UNCHANGED <<pc, why>>
            /\ IF futures[t].st = "done_ok"
               THEN success_count' = success_count + 1 /\ UNCHANGED failed_files
               ELSE /\ UNCHANGED success_count
                    /\ failed_files' = FailedAfter(failed_files, futures[t])
    /\ UNCHANGED <<registryVars, fs, today, procVars, call, files_to_download,
                   fetches, ret, pre>>

\* the with block is left by an exception: shutdown(wait=True), then the
\* exception reaches the caller
Unwind ==
    /\ pc = "unwind"
    /\ AllDone(futures)
    /\ pc' = "returned"
    /\ ret' = IF why = "unsupported_platform" THEN "ValueError" ELSE "FileNotFoundError"
    /\ UNCHANGED <<registryVars, fs, today, procVars, runVars, fetches, why, pre>>

LoopFinishedMutant(futs, seen) == seen # {}

\* as_completed is exhausted when every future has been handed over
LoopFinished(futs, seen) == seen = 1..Len(futs)

NoRequiredFailedMutant(failed) == TRUE

\* if not failed_files
NoRequiredFailed(failed) == failed = <<>>

CompleteStatusMutant(status, day) ==
    [status EXCEPT !.downloaded = TRUE, !.download_date = day]

\* model['status'] on success
CompleteStatus(status, day) ==
    [status EXCEPT !.downloaded = TRUE, !.verified = TRUE, !.download_date = day]

FailedStatusMutant(status) == [status EXCEPT !.downloaded = FALSE]

\* model['status'] when required files failed: the else branch writes nothing
FailedStatus(status) == status

\* ModelDownloader._save_registry: open(path, 'w') ...
SyncSaveOpen(state) == "truncated"

SyncSaveDumpMutant(reg) == [reg EXCEPT !.models = SubSeq(@, 1, 1)]

\* ... json.dump(self.registry, f)
SyncSaveDump(reg) == reg

UpdateStatus ==
    /\ pc = "collect"
    /\ LoopFinished(futures, processed)
    /\ IF NoRequiredFailed(failed_files)
       THEN /\ registry' = [registry EXCEPT !.models[call.index].status =
                                CompleteStatus(@, today)]
            /\ diskState' = SyncSaveOpen(diskState)
            /\ pc' = "saving"
            /\ UNCHANGED <<ret, why>>
       ELSE /\ registry' = [registry EXCEPT !.models[call.index].status = FailedStatus(@)]
            /\ Leave(FailedResult, "failed")
            /\ UNCHANGED diskState
    /\ UNCHANGED <<disk, fs, today, procVars, runVars, fetches, pre>>

SaveDone ==
    /\ pc = "saving"
    /\ tool = "sync"
    /\ disk' = SyncSaveDump(registry)
    /\ diskState' = "full"
    /\ Leave("True", "complete")
    /\ UNCHANGED <<registry, fs, today, procVars, runVars, fetches, pre>>

\* download_all is left: its arguments are gone, its list and counts were printed
FleetOver(f, how) == [f EXCEPT !.st = how, !.force = FALSE, !.include_optional = FALSE]

\* what download_model lets escape instead of returning
Exceptions == {"ValueError", "FileNotFoundError"}

\* if self.download_model(...): success_count += 1
FleetCount(count, result) == IF result = "True" THEN count + 1 ELSE count

\* the caller has the result: the command line, or the loop of download_all
Return ==
    /\ pc = "returned"
    /\ IF fleet.st = "on"
       THEN IF ret \in Exceptions
            THEN \* the exception leaves download_all too
                 pc' = "idle" /\ fleet' = FleetOver(fleet, "aborted")
            ELSE /\ pc' = "fleet"
                 /\ fleet' = [fleet EXCEPT !.k = @ + 1,
                                           !.success_count = FleetCount(@, ret)]
       ELSE pc' = "idle" /\ UNCHANGED fleet
    /\ call' = NoCall
    /\ files_to_download' = <<>>
    /\ futures' = <<>>
    /\ processed' = {}
    /\ success_count' = 0
    /\ failed_files' = <<>>
    /\ fetches' = 0
    /\ ret' = "none"
    /\ why' = "none"
    /\ pre' = Snapshot(registry, disk)
    /\ UNCHANGED <<registryVars, fs, today, tool, max_workers, ops>>

\* models = self.list_models(filter_type=model_type), as the list of their ids
ListModels(models, filter_type) ==
    LET kept == SelectSeq(models, LAMBDA m : filter_type = Unset \/ m.type = filter_type)
    IN  [i \in 1..Len(kept) |-> kept[i].id]

\* download_all up to its loop: nothing to do for an empty list
FleetStart(filter_type, force, include_optional) ==
    /\ pc = "idle"
    /\ tool = "sync"
    /\ ops = 0
    /\ ops' = CallBudget(max_workers)   \* the one command followed in its behaviour
    /\ LET models == ListModels(registry.models, filter_type)
       IN  IF models = <<>>
           THEN pc' = "idle" /\ fleet' = [FleetOff EXCEPT !.st = "empty"]
           ELSE /\ pc' = "fleet"
                /\ fleet' = [st |-> "on", models |-> models, k |-> 0, slept |-> 0,
                             success_count |-> 0,
                             force |-> force, include_optional |-> include_optional]
    /\ UNCHANGED <<registryVars, fs, today, tool, max_workers, runVars, fetches, ret, why, pre>>

SleptMutant(f) == TRUE

\* time.sleep(1) has returned for every model the loop has finished
Slept(f) == f.slept = f.k

\* time.sleep(1) at the end of the loop body
FleetSleep ==
    /\ pc = "fleet"
    /\ fleet.st = "on"
    /\ fleet.slept < fleet.k
    /\ fleet' = [fleet EXCEPT !.slept = @ + 1]
    /\ UNCHANGED <<registryVars, fs, today, tool, max_workers, ops, pc, runVars, fetches,
                   ret, why, pre>>

FleetMayProceedMutant(p) == p \in {"fleet", "collect"}

\* the loop of download_all may take its next model
FleetMayProceed(p) == p = "fleet"

\* for model in models: self.download_model(model['id'], force, include_optional)
FleetCall ==
    /\ FleetMayProceed(pc)
    /\ fleet.st = "on"
    /\ Slept(fleet)
    /\ fleet.k < Len(fleet.models)
    /\ DownloadModel(fleet.models[fleet.k + 1], fleet.force, fleet.include_optional)
    /\ UNCHANGED <<ops, fleet>>

\* the loop is over: the summary line
FleetEnd ==
    /\ pc = "fleet"
    /\ fleet.k = Len(fleet.models)
    /\ Slept(fleet)
    /\ pc' = "idle"
    /\ fleet' = FleetOver(fleet, "summary")
    /\ UNCHANGED <<registryVars, fs, today, tool, max_workers, ops, runVars, fetches,
                   ret, why, pre>>

(***************************************************************************)
(* The worker threads: ThreadPoolExecutor and ModelDownloader._download_file *)
(***************************************************************************)
WorkerFreeMutant(futs, n) == Cardinality({t \in 1..Len(futs) : Running(futs[t])}) <= n

\* ThreadPoolExecutor(max_workers=n): a queued item is taken when fewer than
\* n workers are busy
WorkerFree(futs, n) == Cardinality({t \in 1..Len(futs) : Running(futs[t])}) < n

HeadOfQueueMutant(futs, t) == t = 1

\* the work queue is first in, first out
HeadOfQueue(futs, t) == \A u \in 1..(t - 1) : futs[u].st # "queued"

PoolOpen == pc \in {"submit", "collect", "unwind"}

\* the answer to requests.get: success, or a status raise_for_status rejects
Responses == {"200", "404"}

\* except requests.exceptions.RequestException / except Exception
FailMessage(kind) == IF kind \in {"404", "neterr"} THEN "Failed to download" ELSE "Error downloading"

fetchFrame == <<registryVars, today, procVars, pc, call, files_to_download, processed,
                success_count, failed_files, ret, why, pre>>

\* self.hf_token = os.environ.get('HF_TOKEN'): the runs followed have one set
HfToken == "hf_secret"

\* the host of a URL: its first part
HostOf(url) == url[1]

\* 'huggingface.co' in url: some part of the URL holds that text
MentionsHuggingFace(url) ==
    \E k \in 1..Len(url) : url[k] \in {"https://huggingface.co", "huggingface.co"}

\* if self.hf_token and 'huggingface.co' in url: headers['Authorization'] = ...
Authorization(token, url) == token # Unset /\ MentionsHuggingFace(url)

\* a worker takes the item: headers are built first
StartFetch(t) ==
    /\ PoolOpen
    /\ t \in 1..Len(futures)
    /\ futures[t].st = "queued"
    /\ HeadOfQueue(futures, t)
    /\ WorkerFree(futures, max_workers)
    /\ futures' = [futures EXCEPT ![t].st = "mkdir",
                                  ![t].auth = Authorization(HfToken, futures[t].url)]
    /\ UNCHANGED <<fetchFrame, fs, fetches>>

CheckExistsMutant(t) ==
    /\ t \in 1..Len(futures)
    /\ futures[t].st = "mkdir"
    /\ futures' = [futures EXCEPT ![t].st = "get"]
    /\ UNCHANGED <<fetchFrame, fs, fetches>>

\* dest_path.parent.mkdir(...); if dest_path.exists(): return True, "Already exists"
CheckExists(t) ==
    /\ t \in 1..Len(futures)
    /\ futures[t].st = "mkdir"
    /\ futures' = IF Exists(fs, futures[t].dest)
                  THEN [futures EXCEPT ![t].st = "done_ok", ![t].msg = "Already exists"]
                  ELSE [futures EXCEPT ![t].st = "get"]
    /\ UNCHANGED <<fetchFrame, fs, fetches>>

\* requests.get(...); response.raise_for_status()
Get(t, resp) ==
    /\ t \in 1..Len(futures)
    /\ futures[t].st = "get"
    /\ fetches' = fetches + 1
    /\ futures' = IF resp = "200"
                  THEN [futures EXCEPT ![t].st = "open"]
                  ELSE [futures EXCEPT ![t].st = "cleanup", ![t].kind = resp]
    /\ UNCHANGED <<fetchFrame, fs>>

\* open(dest_path, 'wb'): the file is created, or cut to nothing
OpenDest(t) ==
    /\ t \in 1..Len(futures)
    /\ futures[t].st = "open"
    /\ fs' = [fs EXCEPT ![futures[t].dest] = "partial"]
    /\ futures' = [futures EXCEPT ![t].st = "write", ![t].attached = TRUE]
    /\ UNCHANGED <<fetchFrame, fetches>>

\* f.write(chunk)
WriteChunk(t) ==
    /\ t \in 1..Len(futures)
    /\ futures[t].st = "write"
    /\ futures[t].chunks < MaxChunks
    /\ futures' = [futures EXCEPT ![t].chunks = @ + 1]
    /\ UNCHANGED <<fetchFrame, fs, fetches>>

\* the stream breaks (RequestException) or the write fails (OSError)
WriteFail(t, kind) ==
    /\ t \in 1..Len(futures)
    /\ futures[t].st = "write"
    /\ futures' = [futures EXCEPT ![t].st = "cleanup", ![t].kind = kind, ![t].chunks = 0]
    /\ UNCHANGED <<fetchFrame, fs, fetches>>

\* the file t wrote is whole once no other fetch still writes into it
OtherWriter(futs, t) ==
    \E u \in 1..Len(futs) :
        u # t /\ futs[u].st = "write" /\ futs[u].attached /\ futs[u].dest = futs[t].dest

\* the body ends; return True, "Downloaded"
FinishWrite(t) ==
    /\ t \in 1..Len(futures)
    /\ futures[t].st = "write"
    /\ futures[t].chunks = MaxChunks
    /\ futures' = [futures EXCEPT ![t].st = "done_ok", ![t].msg = "Downloaded",
                                  ![t].attached = FALSE, ![t].chunks = 0]
    /\ fs' = IF futures[t].attached /\ ~OtherWriter(futures, t)
             THEN [fs EXCEPT ![futures[t].dest] = "complete"]
             ELSE fs
    /\ UNCHANGED <<fetchFrame, fetches>>

CleanupActionMutant(exists) == "keep"

\* what the except clauses do with the destination: "unlink" it or "keep" it
CleanupAction(exists) == IF exists THEN "unlink" ELSE "keep"

\* except ...: if dest_path.exists():
CleanupCheck(t) ==
    /\ t \in 1..Len(futures)
    /\ futures[t].st = "cleanup"
    /\ futures' = IF CleanupAction(Exists(fs, futures[t].dest)) = "unlink"
                  THEN [futures EXCEPT ![t].st = "unlink"]
                  ELSE [futures EXCEPT ![t].st = "done_fail",
                                       ![t].msg = FailMessage(futures[t].kind)]
    /\ UNCHANGED <<fetchFrame, fs, fetches>>

\* dest_path.unlink(); return False, ...   (FileNotFoundError when a sibling
\* fetch of the same path removed the file first)
Unlink(t) ==
    /\ t \in 1..Len(futures)
    /\ futures[t].st = "unlink"
    /\ IF Exists(fs, futures[t].dest)
       THEN /\ fs' = [fs EXCEPT ![futures[t].dest] = "absent"]
            /\ futures' = [u \in 1..Len(futures) |->
                             IF u = t
                             THEN [futures[u] EXCEPT !.st = "done_fail", !.attached = FALSE,
                                                     !.msg = FailMessage(futures[t].kind)]
                             ELSE IF futures[u].dest = futures[t].dest
                                  THEN [futures[u] EXCEPT !.attached = FALSE]
                                  ELSE futures[u]]
       ELSE /\ futures' = [futures EXCEPT ![t].st = "raised", ![t].attached = FALSE]
            /\ UNCHANGED fs
    /\ UNCHANGED <<fetchFrame, fetches>>

(***************************************************************************)
(* HFModelDownloader (registration), one download_model call.              *)
(***************************************************************************)
\* how one download_file call ends: the file is written, the request fails
\* before anything is written, or the body breaks after open(dest, 'wb').
\* A broken body is followed for the first request, the one for config.json,
\* whose leftover the code reads back.
FirstOutcomes == {"ok", "404", "broken"}
RegOutcomes == {"ok", "404"}

\* HFModelDownloader.download_file: the value it returns, True after the write,
\* False from the HTTPError handler (404 or not) and from the general handler
DownloadFileResult(outcome) == outcome = "ok"

\* one call of download_file as the registration sees it: what happened to the
\* request and the value the call returned
Fetched(file, outcome) == [file |-> file, cause |-> outcome, value |-> DownloadFileResult(outcome)]

\* HFModelDownloader.download_file: what it leaves at dest_path (no cleanup)
DownloadFileEffect(files, path, outcome) ==
    IF outcome = "ok" THEN [files EXCEPT ![path] = "complete"]
    ELSE IF outcome = "broken" THEN [files EXCEPT ![path] = "partial"]
    ELSE files

\* HFModelDownloader.find_existing_model
FindExistingModel(models, owner, model_name) ==
    LET hits == {i \in 1..Len(models) :
                    /\ models[i].source.author = owner
                    /\ models[i].source.repository = model_name}
    IN  IF hits = {} THEN 0 ELSE CHOOSE i \in hits : \A j \in hits : i <= j

\* HFModelDownloader._detect_model_type: every name registered here holds 'whisper'
DetectModelType(model_name) == "asr"

\* files that are optional even in the required list
ToleratedMissing == {"normalizer.json"}

\* the loop over REQUIRED_FILES; acc = [fs, downloaded, failed, gets, fetched]
RECURSIVE RequiredLoop(_, _, _, _)
RequiredLoop(files, dir, oc, acc) ==
    IF files = <<>> THEN acc
    ELSE LET f == Head(files)
             path == Dest(dir, f)
         IN  IF f = "config.json" /\ Exists(acc.fs, path)
             THEN RequiredLoop(Tail(files), dir, oc,
                               [acc EXCEPT !.downloaded = Append(@, f)])
             ELSE LET after == [acc EXCEPT !.fs = DownloadFileEffect(@, path, oc[f]),
                                           !.gets = @ + 1,
                                           !.fetched = Append(@, Fetched(f, oc[f]))]
                  IN  RequiredLoop(Tail(files), dir, oc,
                          IF DownloadFileResult(oc[f]) THEN [after EXCEPT !.downloaded = Append(@, f)]
                          ELSE IF f \in ToleratedMissing THEN after
                          ELSE [after EXCEPT !.failed = Append(@, f)])

\* the loop over OPTIONAL_FILES
RECURSIVE OptionalLoop(_, _, _, _)
OptionalLoop(files, dir, oc, acc) ==
    IF files = <<>> THEN acc
    ELSE LET f == Head(files)
             after == [acc EXCEPT !.fs = DownloadFileEffect(@, Dest(dir, f), oc[f]),
                                  !.gets = @ + 1,
                                  !.fetched = Append(@, Fetched(f, oc[f]))]
         IN  OptionalLoop(Tail(files), dir, oc,
                 IF DownloadFileResult(oc[f]) THEN [after EXCEPT !.downloaded = Append(@, f)] ELSE after)

\* all the downloads of one registration: config.json first, then the lists
RegDownloads(dir, include_optional, oc0, oc) ==
    LET first == [fs |-> DownloadFileEffect(fs, Dest(dir, "config.json"), oc0),
                  downloaded |-> <<>>, failed |-> <<>>, gets |-> 1,
                  fetched |-> <<Fetched("config.json", oc0)>>]
        req == RequiredLoop(REQUIRED_FILES, dir, oc, first)
    IN  IF include_optional THEN OptionalLoop(OPTIONAL_FILES, dir, oc, req) ELSE req

\* the entry of a model that is not in the registry yet
NewEntry(owner, model_name, downloaded, failed, day) ==
    Record(StrReplaceDot(model_name), DetectModelType(model_name),
           Source("huggingface", owner, model_name, Unset, Unset),
           HFDir(owner, model_name),
           FilterIn(REQUIRED_FILES, Range(downloaded)),
           FilterIn(OPTIONAL_FILES, Range(downloaded)),
           Status(failed = <<>>, failed = <<>>, day))

\* model_entry['status'] after the downloads
RegStatus(status, failed, day) ==
    [status EXCEPT !.downloaded = (failed = <<>>), !.download_date = day]

\* HFModelDownloader._save_registry: last_updated is set, then the file is opened
RegStamp(reg, day) == [reg EXCEPT !.last_updated = day]

Register(owner, model_name, force, include_optional, oc0, oc) ==
    /\ pc = "idle"
    /\ tool = "add"
    /\ ops < CallBudget(max_workers)
    /\ ops' = ops + 1
    /\ fleet' = FleetOff
    /\ pre' = Snapshot(registry, disk)
    /\ LET existing == FindExistingModel(registry.models, owner, model_name)
           frame == [model_id |-> <<owner>> \o model_name, index |-> existing,
                     forced |-> existing # 0 /\ force
                                    /\ IsDownloaded(registry.models[existing]),
                     fetched |-> <<>>]
       IN  /\ IF existing # 0 /\ ~force /\ IsDownloaded(registry.models[existing])
              THEN /\ Leave("entry", "short_circuit")
                   /\ call' = frame
                   /\ fetches' = 0
                   /\ UNCHANGED <<registry, diskState, fs>>
              ELSE LET run == RegDownloads(HFDir(owner, model_name), include_optional, oc0, oc)
                       models == IF existing # 0 THEN registry.models
                                 ELSE Append(registry.models,
                                             NewEntry(owner, model_name, run.downloaded,
                                                      run.failed, today))
                       at == IF existing # 0 THEN existing ELSE Len(models)
                       updated == [models EXCEPT ![at].status = RegStatus(@, run.failed, today)]
                   IN  /\ Len(models) <= MaxModels
                       /\ call' = [frame EXCEPT !.fetched = run.fetched]
                       /\ fs' = run.fs
                       /\ fetches' = run.gets
                       /\ registry' = RegStamp(UpdateStatistics([registry EXCEPT !.models = updated]),
                                               today)
                       /\ diskState' = "truncated"
                       /\ pc' = "saving"
                       /\ UNCHANGED <<ret, why>>
    /\ UNCHANGED <<disk, today, tool, max_workers, files_to_download, futures, processed,
                   success_count, failed_files>>

\* json.dump(self.registry, f) of HFModelDownloader._save_registry
RegSaveDone ==
    /\ pc = "saving"
    /\ tool = "add"
    /\ disk' = registry
    /\ diskState' = "full"
    /\ Leave("entry", "registered")
    /\ UNCHANGED <<registry, fs, today, procVars, runVars, fetches, pre>>

(***************************************************************************)
(* Processes and the calendar.                                             *)
(***************************************************************************)
\* __init__ of either tool: _load_registry
Restart(newTool) ==
    /\ pc \in {"idle", "crashed"}
    /\ tool' = newTool
    /\ UNCHANGED max_workers
    /\ IF diskState = "full"
       THEN registry' = disk /\ pc' = "idle" /\ ret' = "none" /\ why' = "none"
       ELSE IF newTool = "add"
       THEN registry' = DefaultRegistry(today) /\ pc' = "idle" /\ ret' = "none" /\ why' = "none"
       ELSE \* ModelDownloader._load_registry raises FileNotFoundError
            /\ pc' = "crashed"
            /\ ret' = "FileNotFoundError"
            /\ why' = "registry_not_found"
            /\ UNCHANGED registry
    /\ pre' = Snapshot(registry', disk)
    /\ fleet' = FleetOff
    /\ UNCHANGED <<disk, diskState, fs, today, ops, runVars, fetches>>

\* a day passes between two commands
Tick ==
    /\ pc = "idle"
    /\ ops > 0
    /\ ops < CallBudget(max_workers)
    /\ today < MaxDay
    /\ today' = today + 1
    /\ UNCHANGED <<registryVars, fs, procVars, pc, runVars, fetches, ret, why, pre>>

Tasks == 1..3

Fetch ==
    \E t \in Tasks :
        \/ StartFetch(t)
        \/ CheckExists(t)
        \/ \E resp \in Responses : Get(t, resp)
        \/ OpenDest(t)
        \/ WriteChunk(t)
        \/ \E kind \in {"neterr", "oserror"} : WriteFail(t, kind)
        \/ FinishWrite(t)
        \/ CleanupCheck(t)
        \/ Unlink(t)

(***************************************************************************)
(* ModelDownloader.verify_model                                            *)
(***************************************************************************)
\* missing_files: the required files that are not at their destination
MissingRequired(model, files) ==
    {f \in Range(model.files.required) : ~Exists(files, Dest(model.local_path, f))}

VerifyResultMutant(models, files, model_id) ==
    LET i == FindModel(models, model_id)
    IN  i # 0 /\ IsDownloaded(models[i])

\* the value verify_model returns
VerifyResult(models, files, model_id) ==
    LET i == FindModel(models, model_id)
    IN  i # 0 /\ MissingRequired(models[i], files) = {}

\* the exit paths of verify_model
VerifyPaths == {"verify_not_found", "verify_missing", "verify_present"}

\* main: the verify command for one model id
Verify(model_id) ==
    /\ pc = "idle"
    /\ tool = "sync"
    /\ fleet' = FleetOff
    /\ pre' = Snapshot(registry, disk)
    /\ call' = [NoCall EXCEPT !.model_id = model_id]
    /\ fetches' = 0
    /\ Leave(IF VerifyResult(registry.models, fs, model_id) THEN "True" ELSE "False",
             IF FindModel(registry.models, model_id) = 0 THEN "verify_not_found"
             ELSE IF VerifyResult(registry.models, fs, model_id) THEN "verify_present"
             ELSE "verify_missing")
    /\ UNCHANGED <<registryVars, fs, today, tool, max_workers, ops, files_to_download,
                   futures, processed, success_count, failed_files>>

\* --type of the download-all command: none, or one type
FleetFilters == {Unset, "wakeword"}

\* the ids a command names: those of the registry, and one it does not hold
ModelIds == {registry.models[i].id : i \in 1..Len(registry.models)} \cup {<<"no-such-model">>}

Next ==
    \/ \E id \in ModelIds, force \in BOOLEAN, opt \in BOOLEAN : Call(id, force, opt)
    \/ \E type \in FleetFilters, force \in BOOLEAN, opt \in BOOLEAN : FleetStart(type, force, opt)
    \/ FleetCall
    \/ FleetSleep
    \/ FleetEnd
    \/ \E id \in ModelIds : Verify(id)
    \/ Submit
    \/ \E t \in Tasks : Collect(t)
    \/ Unwind
    \/ UpdateStatus
    \/ SaveDone
    \/ Return
    \/ Fetch
    \/ \E owner \in RegOwners, name \in RegNames, force \in BOOLEAN, opt \in BOOLEAN,
          oc0 \in FirstOutcomes, oc \in [Range(REQUIRED_FILES) \cup Range(OPTIONAL_FILES) -> RegOutcomes] :
              Register(owner, name, force, opt, oc0, oc)
    \/ RegSaveDone
    \/ \E t \in {"sync", "add"} : Restart(t)
    \/ Tick

Spec == Init /\ [][Next]_vars

\* one process of the synchronization tool: download_model calls and the pool
SyncInit == Init /\ tool = "sync"

SyncNext ==
    \/ \E id \in ModelIds, force \in BOOLEAN, opt \in BOOLEAN : Call(id, force, opt)
    \/ \E type \in FleetFilters, force \in BOOLEAN, opt \in BOOLEAN : FleetStart(type, force, opt)
    \/ FleetCall
    \/ FleetSleep
    \/ FleetEnd
    \/ \E id \in ModelIds : Verify(id)
    \/ Submit
    \/ \E t \in Tasks : Collect(t)
    \/ Unwind
    \/ UpdateStatus
    \/ SaveDone
    \/ Return
    \/ Fetch
    \/ Tick

\* worker threads get processor time, and every request ends (timeout=30)
FairSpec == SyncInit /\ [][SyncNext]_vars /\ WF_vars(Fetch)

\* the steps of the thread that runs download_model
MainThread ==
    \/ Submit
    \/ \E t \in Tasks : Collect(t)
    \/ Unwind
    \/ UpdateStatus
    \/ SaveDone

\* the workers and the calling thread both get processor time
LiveSpec == FairSpec /\ WF_vars(MainThread)

(***************************************************************************)
(* Properties of the synchronization tool.                                 *)
(***************************************************************************)
\* the model as it was when the running call began
ModelBefore == pre.registry.models[call.index]

\* the call of the synchronization tool has reported its result
SyncReturned == pc = "returned" /\ tool = "sync" /\ call.index # 0

C2_DecisionAfterAllFetches ==
    (tool = "sync" /\ (pc \in {"saving", "returned"} \/ registry # pre.registry)) =>
        AllDone(futures)

C2_Witness ==
    /\ tool = "sync"
    /\ pc = "saving"
    /\ Len(futures) >= 2
    /\ registry # pre.registry

\* C3: at most max_workers fetches execute at once, the others wait in the
\* queue, and every queued fetch is eventually executed
C3_PoolLimit ==
    Cardinality({t \in 1..Len(futures) : Running(futures[t])}) <= max_workers

C3_BoundedPoolRunsEveryTask ==
    /\ []C3_PoolLimit
    /\ \A t \in Tasks :
          (t \in 1..Len(futures) /\ futures[t].st = "queued")
              ~> (t \in 1..Len(futures) /\ Done(futures[t]))

C3_Witness ==
    /\ Cardinality({t \in 1..Len(futures) : Running(futures[t])}) = max_workers
    /\ \E t \in 1..Len(futures) : futures[t].st = "queued"
    /\ \E t \in 1..Len(futures) : Done(futures[t])

\* C4: a call with force = false on a model whose status.downloaded is true
\* returns Complete at once: no fetch is attempted, and the registry in memory
\* and the document on disk (last_updated too) are what they were
C4_ShortCircuit ==
    (tool = "sync" /\ pc \notin {"idle", "crashed"} /\ call.index # 0
        /\ IsDownloaded(ModelBefore) /\ ~call.forced) =>
            /\ pc = "returned"
            /\ ret = "True"
            /\ why = "short_circuit"
            /\ fetches = 0
            /\ futures = <<>>
            /\ registry = pre.registry
            /\ disk = pre.disk
            /\ diskState = "full"

C4_Witness ==
    /\ SyncReturned
    /\ why = "short_circuit"
    /\ IsDownloaded(ModelBefore)
    /\ ops = 2

\* C5: when a run that dispatched fetches ends Complete, the model's status is
\* downloaded = true, verified = true, download_date = today, and the document
\* on disk holds that status when the result is reported
C5_CompleteIsRecorded ==
    (SyncReturned /\ ret = "True" /\ why # "short_circuit") =>
        /\ futures # <<>>
        /\ CurrentModel.status = Status(TRUE, TRUE, today)
        /\ diskState = "full"
        /\ disk.models[call.index].status = Status(TRUE, TRUE, today)

C5_Witness ==
    /\ SyncReturned
    /\ why = "complete"
    /\ ~ModelBefore.status.verified
    /\ disk.models[call.index].status = Status(TRUE, TRUE, today)

\* C6: when a run ends Failed, the model's status.downloaded is what it was
\* before the run, in memory and on disk
C6_FailedKeepsDownloaded ==
    (SyncReturned /\ why = "failed") =>
        /\ ret = "False"
        /\ CurrentModel.status.downloaded = ModelBefore.status.downloaded
        /\ disk = pre.disk

C6_Witness ==
    /\ SyncReturned
    /\ why = "failed"
    /\ ModelBefore.status.downloaded
    /\ CurrentModel.status.downloaded

\* C7: in every persisted document, statistics.downloaded_models is the number
\* of models with status.downloaded = true and statistics.pending_models the
\* number of the others
C7_StatisticsAgreeWithModels ==
    diskState = "full" =>
        /\ disk.statistics.downloaded_models
              = Cardinality({i \in 1..Len(disk.models) : disk.models[i].status.downloaded})
        /\ disk.statistics.pending_models
              = Cardinality({i \in 1..Len(disk.models) : ~disk.models[i].status.downloaded})

\* C8: in every persisted document, statistics.downloaded_models plus
\* statistics.pending_models is the number of models
C8_StatisticsSum ==
    diskState = "full" =>
        disk.statistics.downloaded_models + disk.statistics.pending_models = Len(disk.models)

C8_Witness ==
    /\ pc = "returned"
    /\ why = "registered"
    /\ diskState = "full"
    /\ Len(disk.models) = 2
    /\ disk.statistics.downloaded_models = 1

\* C9 as stated: for a model with status.downloaded = true one of whose
\* required files is gone from disk, a run with force = false reports Failed
\* with exactly that file in the failed list, and pending_models grows by one
C9_RemovedFileReportedFailed ==
    (SyncReturned /\ IsDownloaded(ModelBefore) /\ ~call.forced
        /\ MissingRequired(CurrentModel, fs) = {"tokenizer.json"}) =>
            /\ ret = "False"
            /\ failed_files = <<"tokenizer.json">>
            /\ registry.statistics.pending_models = pre.registry.statistics.pending_models + 1

\* C9: for a model with status.downloaded = true one of whose required files
\* is gone from disk and cannot be fetched, a run with force = false reports
\* Complete without a fetch; a run with force = true reports Failed with
\* exactly that file in the failed list; either way status.downloaded and the
\* statistics stay what they were
C9_RemovedFileRun ==
    (SyncReturned /\ IsDownloaded(ModelBefore)
        /\ MissingRequired(CurrentModel, fs) = {"tokenizer.json"}) =>
            /\ CurrentModel.status.downloaded
            /\ registry.statistics = pre.registry.statistics
            /\ disk = pre.disk
            /\ ~call.forced => (ret = "True" /\ fetches = 0 /\ failed_files = <<>>)
            /\ call.forced => (ret = "False" /\ failed_files = <<"tokenizer.json">>)

C9_Witness ==
    /\ SyncReturned
    /\ IsDownloaded(ModelBefore)
    /\ ~call.forced
    /\ ret = "True"
    /\ MissingRequired(CurrentModel, fs) = {"tokenizer.json"}

\* C10: at the step in which a fetch ends in failure, no file is at its
\* destination: what the fetch had written is deleted
C10_FailedFetchLeavesNoFile ==
    [][\A t \in Tasks :
          (t \in 1..Len(futures) /\ t \in 1..Len(futures')
              /\ ~Done(futures[t]) /\ futures'[t].st \in {"done_fail", "raised"})
                  => ~Exists(fs', futures'[t].dest)]_vars

C10_Witness ==
    \E t \in 1..Len(futures) :
        /\ futures[t].st = "done_fail"
        /\ futures[t].kind \in {"neterr", "oserror"}
        /\ ~Exists(fs, futures[t].dest)

\* C11: a fetch whose destination already exists reports success ("Already
\* exists") in the step that finds the file, sends no request and leaves every
\* file as it is
C11_ExistingFileIsSkipped ==
    [][\A t \in Tasks :
          (t \in 1..Len(futures) /\ t \in 1..Len(futures')
              /\ futures[t].st = "mkdir" /\ Exists(fs, futures[t].dest)
              /\ futures'[t].st # "mkdir")
                  => /\ futures'[t].st = "done_ok"
                     /\ futures'[t].msg = "Already exists"
                     /\ fetches' = fetches
                     /\ fs' = fs]_vars

C11_Witness ==
    \E t \in 1..Len(futures) :
        /\ futures[t].st = "done_ok"
        /\ futures[t].msg = "Already exists"
        /\ fs[futures[t].dest] = "complete"
        /\ fetches = 0

\* C12: a run with force = true on a downloaded model sends a request for
\* every file of its task list, also for the files that are at their destination
C12_ForceFetchesEveryFile ==
    (SyncReturned /\ call.forced /\ why \in {"complete", "failed"}) =>
        fetches = Len(futures)

\* C13: a download_all never stops early: it ends with its summary, after
\* having called download_model for every model of its list
C13_FleetNeverAborts ==
    fleet.st \notin {"off", "on"} =>
        /\ fleet.st \in {"summary", "empty"}
        /\ fleet.k = Len(fleet.models)

\* C14: in a download_all no fetch is in flight between two models: whenever
\* the loop takes a result or starts the call for its next model, every fetch
\* of the call before has finished and the document is fully written, with the
\* status a Complete call has set
C14_BetweenModels ==
    pc = "fleet" => (futures = <<>> /\ diskState = "full")

C14_Handover ==
    (fleet.st = "on" /\ pc' # pc /\ pc' \in {"fleet", "submit"}) =>
        /\ AllDone(futures)
        /\ diskState = "full"
        /\ why = "complete" => disk.models[call.index].status = CurrentModel.status

C14_OneModelAtATime == []C14_BetweenModels /\ [][C14_Handover]_vars

C14_Witness ==
    /\ fleet.st = "on"
    /\ fleet.k = 1
    /\ pc = "collect"
    /\ \E t \in 1..Len(futures) : Running(futures[t])

\* C15: verify_model returns true exactly when every required file of the
\* model is at its destination, whatever status.downloaded says; it leaves the
\* registry, the document on disk and the files as they are, and sends no request
C15_VerifyState ==
    (pc = "returned" /\ why \in VerifyPaths) =>
        LET i == FindModel(registry.models, call.model_id)
        IN  /\ (ret = "True") <=>
                   (i # 0 /\ \A k \in 1..Len(registry.models[i].files.required) :
                        fs[Dest(registry.models[i].local_path,
                                registry.models[i].files.required[k])] # "absent")
            /\ ret \in {"True", "False"}
            /\ registry = pre.registry
            /\ disk = pre.disk
            /\ fetches = 0
            /\ futures = <<>>

C15_VerifyStep ==
    (why' \in VerifyPaths /\ why \notin VerifyPaths) =>
        (fs' = fs /\ registry' = registry /\ disk' = disk /\ diskState' = diskState)

C15_VerifyReadsFilesOnly == []C15_VerifyState /\ [][C15_VerifyStep]_vars

C15_Witness ==
    /\ pc = "returned"
    /\ why = "verify_missing"
    /\ ret = "False"
    /\ registry.models[FindModel(registry.models, call.model_id)].status.downloaded

\* C16: the document at the registry path is never seen cut or half written:
\* a reader finds no document, or a whole one
C16_SaveIsAtomic == diskState \in {"absent", "full"}

\* C17: a download_model call of the synchronization tool changes nothing in
\* the registry, in memory or on disk, but the status of its model (statistics
\* and last_updated set aside): the same records in the same order, every
\* field but status as before, and the status of every other record as before
C17_SyncChangesOneStatus ==
    (tool = "sync" /\ pc \notin {"idle", "crashed", "fleet"}) =>
        \A doc \in {<<registry, pre.registry>>}
                      \cup (IF diskState = "full" THEN {<<disk, pre.disk>>} ELSE {}) :
            /\ Len(doc[1].models) = Len(doc[2].models)
            /\ \A j \in 1..Len(doc[2].models) :
                  /\ [doc[1].models[j] EXCEPT !.status = doc[2].models[j].status]
                        = doc[2].models[j]
                  /\ j # call.index => doc[1].models[j].status = doc[2].models[j].status

C17_Witness ==
    /\ SyncReturned
    /\ why = "complete"
    /\ Len(disk.models) = 2
    /\ disk # pre.disk

\* C18: the ids of the records of the registry are pairwise distinct
C18_IdsDistinct ==
    \A i, j \in 1..Len(registry.models) :
        i # j => registry.models[i].id # registry.models[j].id

\* C19: a request that carries the Authorization header goes to the Hugging
\* Face host
C19_TokenOnlyToHuggingFace ==
    \A t \in 1..Len(futures) :
        (futures[t].auth /\ futures[t].st \in {"open", "write", "cleanup", "unlink"})
            => HostOf(futures[t].url) = "https://huggingface.co"

\* C20: the caller of download_model can tell an unknown model id (and a
\* registry that cannot be loaded) from a download that failed by the result
\* it gets; an unknown id sends no request and changes no registry
C20_NotFoundIsDistinct ==
    (pc \in {"returned", "crashed"} /\ why \in {"not_found", "registry_not_found"}) =>
        /\ ret # FailedResult
        /\ fetches = 0
        /\ registry = pre.registry
        /\ disk = pre.disk

\* C22: the URL of every file of a Hugging Face model is
\* https://huggingface.co/<author>/<repository>/resolve/<branch>/<file>, with
\* the branch of the model's source, or main when none is set
C22_HuggingFaceUrlUsesBranch ==
    (tool = "sync" /\ call.index # 0 /\ CurrentModel.source.platform = "huggingface") =>
        \A t \in 1..Len(futures) :
            futures[t].url = <<"https://huggingface.co", CurrentModel.source.author>>
                                 \o CurrentModel.source.repository
                                 \o <<"resolve", BranchOf(CurrentModel), futures[t].file>>

\* C23: the document a save has written carries the day of that save as its
\* last_updated
C23_LastUpdatedOnEverySave ==
    (pc = "returned" /\ why \in {"complete", "registered"}) => disk.last_updated = today

\* C29: when a run that dispatched fetches ends Complete, every required file
\* of the model is at its destination
C29_CompleteHasRequiredFiles ==
    (SyncReturned /\ why = "complete") => MissingRequired(CurrentModel, fs) = {}

\* C30: a record whose status.verified is true has status.downloaded true
C30_VerifiedIsDownloaded ==
    \A i \in 1..Len(registry.models) :
        registry.models[i].status.verified => registry.models[i].status.downloaded

\* C21: the value a fetch hands back for a 404 response differs from the value
\* it hands back for any other failure
C21_NotFoundOutcomeIsDistinct ==
    \A i, j \in 1..Len(call.fetched) :
        (call.fetched[i].cause = "404" /\ call.fetched[j].cause \notin {"404", "ok"})
            => call.fetched[i].value # call.fetched[j].value

\* C24: a call of download_model that has built its task list returns, and
\* when it has returned, by a return or by an exception, every fetch it
\* submitted has ended and the pool takes no more work
C24_ReturnsWithNoFetchLeft ==
    /\ [](SyncReturned => /\ AllDone(futures)
                          /\ ~PoolOpen
                          /\ ret \in {"True", "False"} \cup Exceptions)
    /\ (pc \in {"submit", "collect", "unwind", "saving"}) ~> (pc = "returned")

C24_Witness ==
    /\ SyncReturned
    /\ ret \in Exceptions
    /\ Len(futures) = 2
    /\ AllDone(futures)

\* C25: when a run ends Complete or Failed, the failed list holds exactly the
\* files of the required tasks whose fetch failed, one entry for each, whatever
\* the order in which the fetches ended, and the run is Failed exactly when
\* there is such a task
C25_FailedListIsRequiredFailures ==
    (SyncReturned /\ why \in {"complete", "failed"}) =>
        LET bad == {t \in 1..Len(futures) : futures[t].required /\ futures[t].st = "done_fail"}
        IN  /\ Range(failed_files) = {futures[t].file : t \in bad}
            /\ Len(failed_files) = Cardinality(bad)
            /\ (why = "failed") <=> (bad # {})

C25_Witness ==
    /\ SyncReturned
    /\ why = "failed"
    /\ Len(failed_files) = 1
    /\ \E t \in 1..Len(futures) : ~futures[t].required /\ futures[t].st = "done_fail"
    /\ \E t \in 1..Len(futures) : futures[t].required /\ futures[t].st = "done_ok"

\* C26: when the model is not short-circuited and its task list is empty, the
\* call returns False for lack of files, no fetch is submitted, and the registry
\* in memory and on disk is what it was
C26_EmptyTaskListFails ==
    (/\ tool = "sync"
     /\ call.index # 0
     /\ pc \notin {"idle", "fleet"}
     /\ why # "short_circuit"
     /\ files_to_download = <<>>)
        => /\ pc = "returned"
           /\ ret = "False"
           /\ why = "no_files"
           /\ fetches = 0
           /\ futures = <<>>
           /\ registry = pre.registry
           /\ disk = pre.disk

C26_Witness ==
    /\ SyncReturned
    /\ why = "no_files"
    /\ CurrentModel.files.required = <<>>
    /\ CurrentModel.files.optional # <<>>
    /\ fetches = 0

\* C27: in a run of download_all, while a model is processed one delay has
\* elapsed for every model that ended before it, and once the summary is
\* printed at least as many delays have elapsed as there are models but one
C27_DelayBetweenModels ==
    /\ (fleet.st = "on" /\ pc # "fleet") => fleet.slept = fleet.k
    /\ fleet.st = "summary" => fleet.slept >= Len(fleet.models) - 1

C27_Witness ==
    /\ fleet.st = "on"
    /\ fleet.k = 1
    /\ fleet.slept = 1
    /\ \E t \in 1..Len(futures) : Running(futures[t])

\* C28: the URL of a file of an openWakeWord GitHub model is, with a release
\* other than latest, the release download path of that tag followed by the
\* base name of the file, and otherwise the path of the file under models/ of
\* the branch on raw.githubusercontent.com
C28_OpenWakeWordUrl ==
    (/\ tool = "sync"
     /\ call.index # 0
     /\ CurrentModel.source.platform = "github"
     /\ CurrentModel.source.repository = OpenWakeWord) =>
        LET \* the last component of a relative file path
            BaseName(file) == IF file = "onnx/melspectrogram.onnx"
                              THEN "melspectrogram.onnx" ELSE file
        IN
        \A t \in 1..Len(futures) :
            futures[t].url =
                IF ReleaseOf(CurrentModel) # "latest"
                THEN <<"https://github.com", CurrentModel.source.author>> \o OpenWakeWord
                         \o <<"releases", "download", ReleaseOf(CurrentModel),
                              BaseName(futures[t].file)>>
                ELSE <<"https://raw.githubusercontent.com", CurrentModel.source.author>>
                         \o OpenWakeWord
                         \o <<BranchOf(CurrentModel), "models", futures[t].file>>

====
